---- MODULE Spec2Model ----
(***************************************************************************)
(* A model of feature_creation_scripts/arctic_ocean_regions/               *)
(* arctic_ocean_regions.py: the script main(), the helper make_rectangle   *)
(* and the helper get_longest_contour.                                     *)
(*                                                                         *)
(* Python objects are modelled by reference: a FeatureCollection is an     *)
(* index into colls, a feature an index into feats, and a Python variable  *)
(* holds the index of the collection it is bound to (0 when unbound), so   *)
(* that `fc = fcBS` makes two names of one collection.                     *)
(*                                                                         *)
(* Longitudes and latitudes are written in hundredths of a degree          *)
(* (-167.15 is -16715).  A geometry is either a GeoJSON polygon given by   *)
(* its coordinate rings, or, once a boolean operation has produced it, the *)
(* set of probe points of Probes it covers.                                *)
(***************************************************************************)
EXTENDS Integers, Sequences, FiniteSets

VARIABLES
    pc,          \* main(): index into Prog of the next statement (0: main() not called)
    env,         \* main(): Python variable -> collection index (0 = unbound)
    colls,       \* heap of FeatureCollections: each a sequence of feature indices
    feats,       \* heap of feature dictionaries
    store,       \* the geometric_data store: feature name -> geometry read by gf.read
    paths,       \* the contour paths plt.contour traces at the requested depth
    storeFiles,  \* per-feature files written into the store by gf.split
    localIndex,  \* ./features_and_tags.json: "absent", "partial" or "written"
    projIndex,   \* ../../geometric_features/features_and_tags.json: "old", "partial", "new"
    failure,     \* the statement kind whose exception ended the script ("none" while running)
    rect,        \* make_rectangle called alone: its arguments and its result
    grid         \* the bathymetry grid of get_longest_contour: x, y, z and the phase

mainVars == <<pc, env, colls, feats, store, paths, storeFiles, localIndex, projIndex, failure>>
vars == <<pc, env, colls, feats, store, paths, storeFiles, localIndex, projIndex, failure, rect, grid>>

----------------------------------------------------------------------------
(* Bounds of the model *)

MaxPaths == 2    \* at most this many contour paths are traced
MaxVerts == 2    \* a contour path has 1..MaxVerts vertices
MaxCoord == 1    \* make_rectangle alone: bounds drawn from -MaxCoord..MaxCoord
MaxN == 3        \* the bathymetry grid has 2..MaxN rows and 2..MaxN columns

----------------------------------------------------------------------------
(* Geometry *)

\* Probe points <<lon, lat>>, none on the boundary of a polygon of the script.
Probes ==
    { <<0, 8200>>,        \* north of Fram Strait
      <<0, 8900>>,        \* near the pole
      <<-5000, 8300>>,    \* Lincoln Sea
      <<-15000, 7500>>,   \* Beaufort Gyre box, east of the Chukchi polygon
      <<-16500, 7500>>,   \* Beaufort Gyre box and Chukchi polygon
      <<-15000, 6900>>,   \* shelf box south of the gyre box
      <<-16500, 6900>>,   \* shelf box south of the gyre box, Chukchi polygon
      <<-17500, 7000>>,   \* Chukchi polygon west of the boxes
      <<16000, 7500>>,    \* East Siberian Sea rectangle
      <<12000, 7500>>,    \* Laptev hexagon
      <<10500, 7600>>,    \* Laptev hexagon, western corner
      <<7000, 7500>>,     \* Kara Sea
      <<4000, 7500>>,     \* Barents Sea
      <<3800, 6600>> }    \* White Sea

\* Does the edge a -> b cross the ray from p towards larger longitudes?
\* (the crossing-number rule, with the division multiplied out)
EdgeCrosses(p, a, b) ==
    /\ (a[2] > p[2]) # (b[2] > p[2])
    /\ IF b[2] > a[2]
         THEN (p[1] - a[1]) * (b[2] - a[2]) < (p[2] - a[2]) * (b[1] - a[1])
         ELSE (p[1] - a[1]) * (b[2] - a[2]) > (p[2] - a[2]) * (b[1] - a[1])

\* p lies inside the closed ring: an odd number of edges cross the ray.
InRing(p, ring) ==
    Cardinality({i \in 1..(Len(ring) - 1) : EdgeCrosses(p, ring[i], ring[i + 1])}) % 2 = 1

\* shapely.geometry.shape(geometry), as the probe points the geometry covers.
Shape(geometry) ==
    IF geometry.type = "Polygon"
      THEN {p \in Probes : InRing(p, geometry.coordinates[1])}
      ELSE geometry.cells

\* shapely.geometry.mapping(shape)
Mapping(cells) == [type |-> "Cells", cells |-> cells]

----------------------------------------------------------------------------
(* make_rectangle *)

Absent == "<absent>"   \* a property key the dictionary does not hold

make_rectangle_sorted(lon0, lon1, lat0, lat1, name, author, tags) ==
    LET w == IF lon0 < lon1 THEN lon0 ELSE lon1
        e == IF lon0 < lon1 THEN lon1 ELSE lon0
        s == IF lat0 < lat1 THEN lat0 ELSE lat1
        n == IF lat0 < lat1 THEN lat1 ELSE lat0
    IN  << [name |-> name, author |-> author, object |-> "region",
            component |-> "ocean", tags |-> tags,
            geometry |-> [type |-> "Polygon",
                          coordinates |-> << << <<w, s>>, <<e, s>>, <<e, n>>,
                                                <<w, n>>, <<w, s>> >> >>]] >>

\* The features of the collection make_rectangle returns.
make_rectangle(lon0, lon1, lat0, lat1, name, author, tags) ==
    << [name |-> name, author |-> author, object |-> "region",
        component |-> "ocean", tags |-> tags,
        geometry |-> [type |-> "Polygon",
                      coordinates |-> << << <<lon0, lat0>>, <<lon1, lat0>>,
                                            <<lon1, lat1>>, <<lon0, lat1>>,
                                            <<lon0, lat0>> >> >>]] >>

----------------------------------------------------------------------------
(* The heap, and the operations of FeatureCollection and GeometricFeatures *)

NotInferred == "<not inferred>"   \* author and tags of a feature combine() made

Range(seq) == {seq[i] : i \in 1..Len(seq)}

\* The feature dictionaries of collection c, in order.
Features(c) == [i \in 1..Len(colls[c]) |-> feats[colls[c][i]]]

\* The union of the geometries of collection c.
UnionShape(c) == UNION {Shape(feats[f].geometry) : f \in Range(colls[c])}

\* gf.read(component, object, [name]): the stored feature, in a new collection.
read(name) ==
    << [name |-> name, author |-> store[name].author, object |-> "region",
        component |-> "ocean", tags |-> store[name].tags,
        geometry |-> store[name].geometry] >>

\* c.combine(name): one feature, the union of the features of c.
combine(c, name) ==
    << [name |-> name, author |-> NotInferred, object |-> "region",
        component |-> "ocean", tags |-> NotInferred,
        geometry |-> Mapping(UnionShape(c))] >>

\* a.difference(b): each feature of a, less the union of the features of b.
difference(a, b) ==
    [i \in 1..Len(colls[a]) |->
        [feats[colls[a][i]] EXCEPT
            !.geometry = Mapping(Shape(feats[colls[a][i]].geometry) \ UnionShape(b))]]

\* Bind dst to a new collection holding the new feature dictionaries fs.
Alloc(dst, fs) ==
    /\ feats' = feats \o fs
    /\ colls' = Append(colls, [i \in 1..Len(fs) |-> Len(feats) + i])
    /\ env' = [env EXCEPT ![dst] = Len(colls) + 1]

----------------------------------------------------------------------------
(* get_longest_contour: the selection of the path and the feature built *)

\* numpy.argmax: the first index of the largest element (indices from 1 here).
argmax_last(lens) ==
    CHOOSE i \in 1..Len(lens) :
        /\ \A j \in 1..Len(lens) : lens[j] <= lens[i]
        /\ \A j \in (i + 1)..Len(lens) : lens[j] < lens[i]

argmax(lens) ==
    CHOOSE i \in 1..Len(lens) :
        /\ \A j \in 1..Len(lens) : lens[j] <= lens[i]
        /\ \A j \in 1..(i - 1) : lens[j] < lens[i]

\* "Contour {}".format(contourValue), for the depths the script asks for.
ContourName(contourValue) ==
    CASE contourValue = -300 -> "Contour -300.0"
      [] OTHER -> "Contour"

\* Lines 52-93, given the traced paths ps (non-empty): the features of the
\* collection returned.  A path is [n |-> its vertex count, area |-> the probe
\* points its polygon covers once reprojected and rounded].
longest_contour(ps, contourValue, author) ==
    LET pathLengths == [i \in 1..Len(ps) |-> ps[i].n]
        iLongest == argmax(pathLengths)
        p == ps[iLongest]
    IN  << [name |-> ContourName(contourValue), author |-> author,
            object |-> "region", component |-> "ocean", tags |-> Absent,
            geometry |-> Mapping(p.area)] >>

----------------------------------------------------------------------------
(* main(): its statements, in order.  Each record names the statement's     *)
(* kind (op), its operands and its line in the script.  A call nested in an *)
(* argument, as in a.merge(gf.read(..)), is evaluated first, into "tmp".    *)

author == "Milena Veneziani"

PyVars ==
    { "fc", "fcBS", "fcKara", "fc_tmp", "fcArctic", "fcContour300",
      "fcBG_firstTry", "fcBG", "fcChukchi", "fcBGshelf_firstTry", "fcBGshelf",
      "fcBGshelf_secondTry", "fcESS", "fcLap", "fcCentralArctic", "tmp" }

\* lines 125-139
ProgBarents ==
    << [op |-> "new", dst |-> "fc", line |-> 125],
       [op |-> "read", dst |-> "fcBS", name |-> "Barentsz Sea", line |-> 133],
       [op |-> "read", dst |-> "tmp", name |-> "White Sea", line |-> 134],
       [op |-> "merge", dst |-> "fcBS", src |-> "tmp", line |-> 134],
       [op |-> "combine", dst |-> "fcBS", src |-> "fcBS", name |-> "Barents Sea", line |-> 135],
       [op |-> "alias", dst |-> "fc", src |-> "fcBS", line |-> 136],
       [op |-> "setprop", var |-> "fc", key |-> "tags",
        val |-> "Barents_Sea;Arctic;Arctic_NSIDC;Arctic_Basin", line |-> 138],
       [op |-> "setprop", var |-> "fc", key |-> "author", val |-> author, line |-> 139] >>

\* lines 143-146
ProgKara ==
    << [op |-> "read", dst |-> "fcKara", name |-> "Kara Sea", line |-> 143],
       [op |-> "setprop", var |-> "fcKara", key |-> "tags",
        val |-> "Kara_Sea;Arctic;Arctic_NSIDC;Arctic_Basin", line |-> 145],
       [op |-> "merge", dst |-> "fc", src |-> "fcKara", line |-> 146] >>

\* lines 157-176
ProgArctic ==
    << [op |-> "read", dst |-> "fc_tmp", name |-> "Arctic Ocean", line |-> 157],
       [op |-> "read", dst |-> "tmp", name |-> "Lincoln Sea", line |-> 158],
       [op |-> "merge", dst |-> "fc_tmp", src |-> "tmp", line |-> 158],
       [op |-> "merge", dst |-> "fc_tmp", src |-> "fcBS", line |-> 159],
       [op |-> "rect", dst |-> "fcArctic", lon0 |-> -3600, lon1 |-> 2000,
        lat0 |-> 8600, lat1 |-> 7900, name |-> "North of Fram Strait",
        tags |-> "Arctic_Basin", line |-> 160],
       [op |-> "difference", dst |-> "fcArctic", a |-> "fcArctic", b |-> "fc_tmp", line |-> 162],
       [op |-> "read", dst |-> "tmp", name |-> "Arctic Ocean", line |-> 165],
       [op |-> "merge", dst |-> "fcArctic", src |-> "tmp", line |-> 165],
       [op |-> "read", dst |-> "tmp", name |-> "Laptev Sea", line |-> 166],
       [op |-> "merge", dst |-> "fcArctic", src |-> "tmp", line |-> 166],
       [op |-> "read", dst |-> "tmp", name |-> "East Siberian Sea", line |-> 167],
       [op |-> "merge", dst |-> "fcArctic", src |-> "tmp", line |-> 167],
       [op |-> "read", dst |-> "tmp", name |-> "Chukchi Sea", line |-> 168],
       [op |-> "merge", dst |-> "fcArctic", src |-> "tmp", line |-> 168],
       [op |-> "read", dst |-> "tmp", name |-> "Beaufort Sea", line |-> 169],
       [op |-> "merge", dst |-> "fcArctic", src |-> "tmp", line |-> 169],
       [op |-> "read", dst |-> "tmp", name |-> "Lincoln Sea", line |-> 170],
       [op |-> "merge", dst |-> "fcArctic", src |-> "tmp", line |-> 170],
       [op |-> "combine", dst |-> "fcArctic", src |-> "fcArctic", name |-> "Arctic Ocean", line |-> 171],
       [op |-> "setprop", var |-> "fcArctic", key |-> "tags",
        val |-> "Arctic_Ocean;Arctic;Arctic_Basin", line |-> 173],
       [op |-> "setprop", var |-> "fcArctic", key |-> "author", val |-> author, line |-> 174],
       [op |-> "merge", dst |-> "fc", src |-> "fcArctic", line |-> 176] >>

ProgBG_OutsideContour ==
    << [op |-> "contour", dst |-> "fcContour300", contourValue |-> -300, line |-> 180],
       [op |-> "rect", dst |-> "fcBG_firstTry", lon0 |-> -17000, lon1 |-> -13000,
        lat0 |-> 7050, lat1 |-> 8050, name |-> "Beaufort Gyre",
        tags |-> "Beaufort_Gyre;Arctic;Arctic_Basin;Proshutinski", line |-> 181],
       [op |-> "difference", dst |-> "fcBG", a |-> "fcBG_firstTry", b |-> "fcContour300", line |-> 183],
       [op |-> "difference", dst |-> "fcBG", a |-> "fcBG_firstTry", b |-> "fcContour300", line |-> 184],
       [op |-> "merge", dst |-> "fc", src |-> "fcBG", line |-> 185] >>

\* lines 180-185
ProgBG ==
    << [op |-> "contour", dst |-> "fcContour300", contourValue |-> -300, line |-> 180],
       [op |-> "rect", dst |-> "fcBG_firstTry", lon0 |-> -17000, lon1 |-> -13000,
        lat0 |-> 7050, lat1 |-> 8050, name |-> "Beaufort Gyre",
        tags |-> "Beaufort_Gyre;Arctic;Arctic_Basin;Proshutinski", line |-> 181],
       [op |-> "difference", dst |-> "fcBG", a |-> "fcBG_firstTry", b |-> "fcContour300", line |-> 183],
       [op |-> "difference", dst |-> "fcBG", a |-> "fcBG_firstTry", b |-> "fcBG", line |-> 184],
       [op |-> "merge", dst |-> "fc", src |-> "fcBG", line |-> 185] >>

\* lines 191-212
ProgChukchi ==
    << [op |-> "new", dst |-> "fcChukchi", line |-> 191],
       [op |-> "add", dst |-> "fcChukchi", name |-> "Chukchi Sea",
        tags |-> "Chukchi_Sea;Arctic_NSIDC;Arctic_Basin",
        coordinates |-> << << <<-16715, 6574>>, <<-16801, 6584>>, <<-16862, 6591>>,
                              <<-16943, 6601>>, <<-17024, 6610>>, <<-18000, 6660>>,
                              <<-18000, 8000>>, <<-15648, 8000>>, <<-15665, 6537>>,
                              <<-16715, 6574>> >> >>, line |-> 192],
       [op |-> "difference", dst |-> "fcChukchi", a |-> "fcChukchi", b |-> "fcBG", line |-> 211],
       [op |-> "merge", dst |-> "fc", src |-> "fcChukchi", line |-> 212] >>

\* lines 217-228
ProgBGshelf ==
    << [op |-> "rect", dst |-> "fcBGshelf_firstTry", lon0 |-> -17000, lon1 |-> -13000,
        lat0 |-> 6800, lat1 |-> 8050, name |-> "Beaufort Gyre Shelf Box",
        tags |-> "Beaufort_Gyre_Shelf;Arctic;Arctic_NSIDC;Arctic_Basin", line |-> 217],
       [op |-> "difference", dst |-> "fcBGshelf", a |-> "fcBGshelf_firstTry",
        b |-> "fcContour300", line |-> 220],
       [op |-> "difference", dst |-> "fcBGshelf_secondTry", a |-> "fcBGshelf_firstTry",
        b |-> "fcBG", line |-> 221],
       [op |-> "difference", dst |-> "fcBGshelf_secondTry", a |-> "fcBGshelf_secondTry",
        b |-> "fcBGshelf", line |-> 222],
       [op |-> "setprop", var |-> "fcBGshelf", key |-> "name",
        val |-> "Beaufort Gyre Shelf", line |-> 224],
       [op |-> "merge", dst |-> "fcBGshelf", src |-> "fcBGshelf_secondTry", line |-> 225],
       [op |-> "combine", dst |-> "fcBGshelf", src |-> "fcBGshelf",
        name |-> "Beaufort Gyre Shelf", line |-> 226],
       [op |-> "difference", dst |-> "fcBGshelf", a |-> "fcBGshelf", b |-> "fcChukchi", line |-> 227],
       [op |-> "merge", dst |-> "fc", src |-> "fcBGshelf", line |-> 228] >>

\* lines 233-237
ProgESS ==
    << [op |-> "new", dst |-> "fcESS", line |-> 233],
       [op |-> "rect", dst |-> "fcESS", lon0 |-> 18000, lon1 |-> 14500,
        lat0 |-> 6700, lat1 |-> 8000, name |-> "East Siberian Sea",
        tags |-> "East_Siberian_Sea;Arctic_NSIDC;Arctic_Basin", line |-> 234],
       [op |-> "merge", dst |-> "fc", src |-> "fcESS", line |-> 237] >>

\* lines 243-260
ProgLaptev ==
    << [op |-> "new", dst |-> "fcLap", line |-> 243],
       [op |-> "add", dst |-> "fcLap", name |-> "Laptev Sea",
        tags |-> "Laptev_Sea;Arctic_NSIDC;Arctic_Basin",
        coordinates |-> << << <<14500, 6800>>, <<14500, 8000>>, <<9540, 8129>>,
                              <<9989, 7827>>, <<10200, 7200>>, <<14500, 6800>> >> >>,
        line |-> 244],
       [op |-> "difference", dst |-> "fcLap", a |-> "fcLap", b |-> "fcKara", line |-> 259],
       [op |-> "merge", dst |-> "fc", src |-> "fcLap", line |-> 260] >>

CentralArcticCut_KaraForLaptev ==
    << [op |-> "difference", dst |-> "fcCentralArctic", a |-> "fcArctic", b |-> "fcBG", line |-> 266],
       [op |-> "difference", dst |-> "fcCentralArctic", a |-> "fcCentralArctic",
        b |-> "fcBGshelf", line |-> 267],
       [op |-> "difference", dst |-> "fcCentralArctic", a |-> "fcCentralArctic",
        b |-> "fcChukchi", line |-> 268],
       [op |-> "difference", dst |-> "fcCentralArctic", a |-> "fcCentralArctic",
        b |-> "fcESS", line |-> 269],
       [op |-> "difference", dst |-> "fcCentralArctic", a |-> "fcCentralArctic",
        b |-> "fcKara", line |-> 270] >>

\* lines 266-270
CentralArcticCut ==
    << [op |-> "difference", dst |-> "fcCentralArctic", a |-> "fcArctic", b |-> "fcBG", line |-> 266],
       [op |-> "difference", dst |-> "fcCentralArctic", a |-> "fcCentralArctic",
        b |-> "fcBGshelf", line |-> 267],
       [op |-> "difference", dst |-> "fcCentralArctic", a |-> "fcCentralArctic",
        b |-> "fcChukchi", line |-> 268],
       [op |-> "difference", dst |-> "fcCentralArctic", a |-> "fcCentralArctic",
        b |-> "fcESS", line |-> 269],
       [op |-> "difference", dst |-> "fcCentralArctic", a |-> "fcCentralArctic",
        b |-> "fcLap", line |-> 270] >>

CentralArcticProps_NoRename ==
    << [op |-> "setprop", var |-> "fcCentralArctic", key |-> "tags",
        val |-> "Central_Arctic;Arctic;Arctic_Basin", line |-> 273],
       [op |-> "setprop", var |-> "fcCentralArctic", key |-> "author",
        val |-> author, line |-> 274] >>

\* lines 271-274
CentralArcticProps ==
    << [op |-> "setprop", var |-> "fcCentralArctic", key |-> "name",
        val |-> "Central Arctic", line |-> 272],
       [op |-> "setprop", var |-> "fcCentralArctic", key |-> "tags",
        val |-> "Central_Arctic;Arctic;Arctic_Basin", line |-> 273],
       [op |-> "setprop", var |-> "fcCentralArctic", key |-> "author",
        val |-> author, line |-> 274] >>

\* lines 266-275
ProgCentralArctic ==
    CentralArcticCut \o CentralArcticProps
        \o << [op |-> "merge", dst |-> "fc", src |-> "fcCentralArctic", line |-> 275] >>

\* lines 281-287
ProgOutput ==
    << [op |-> "split", src |-> "fc", line |-> 281],
       [op |-> "writeindex", line |-> 284],
       [op |-> "copy", line |-> 286] >>

Prog_SplitBeforeCentralArctic ==
    ProgBarents \o ProgKara \o ProgArctic \o ProgBG \o ProgChukchi \o ProgBGshelf
        \o ProgESS \o ProgLaptev \o ProgOutput \o ProgCentralArctic

Prog ==
    ProgBarents \o ProgKara \o ProgArctic \o ProgBG \o ProgChukchi \o ProgBGshelf
        \o ProgESS \o ProgLaptev \o ProgCentralArctic \o ProgOutput

----------------------------------------------------------------------------
(* The inputs of main() *)

StoreNames ==
    { "Barentsz Sea", "White Sea", "Kara Sea", "Arctic Ocean", "Lincoln Sea",
      "Laptev Sea", "East Siberian Sea", "Chukchi Sea", "Beaufort Sea" }

\* A stored feature covering the probe points cells.
Stored(cells) ==
    [author |-> "geometric_data", tags |-> "Arctic", geometry |-> Mapping(cells)]

\* The stores main() is run against: the old Barentsz Sea and the old Arctic
\* Ocean may or may not reach into the box north of Fram Strait, and the Kara
\* Sea may or may not reach into the Laptev hexagon.
Stores ==
    { [n \in StoreNames |->
         CASE n = "Barentsz Sea" -> Stored({<<4000, 7500>>} \cup b)
           [] n = "White Sea" -> Stored({<<3800, 6600>>})
           [] n = "Kara Sea" -> Stored({<<7000, 7500>>} \cup k)
           [] n = "Arctic Ocean" ->
                Stored({<<0, 8900>>, <<-15000, 7500>>, <<-16500, 7500>>} \cup a)
           [] n = "Lincoln Sea" -> Stored({<<-5000, 8300>>})
           [] n = "Laptev Sea" -> Stored({<<12000, 7500>>, <<10500, 7600>>})
           [] n = "East Siberian Sea" -> Stored({<<16000, 7500>>})
           [] n = "Chukchi Sea" -> Stored({<<-17500, 7000>>, <<-16500, 6900>>})
           [] n = "Beaufort Sea" -> Stored({<<-15000, 6900>>})] :
      b \in {{}, {<<0, 8200>>}},
      k \in {{}, {<<10500, 7600>>}},
      a \in {{}, {<<0, 8200>>}} }

\* The areas a traced contour path may enclose: the deep basin, reaching into
\* the eastern part of the gyre box, or a closed contour over the western
\* part of the boxes.
PathAreas ==
    { {<<0, 8900>>, <<0, 8200>>, <<-15000, 7500>>},
      {<<-16500, 7500>>, <<-16500, 6900>>} }

SeqsUpTo(S, n) == UNION {[1..k -> S] : k \in 0..n}

\* What plt.contour may trace: up to MaxPaths paths.
PathLists == SeqsUpTo([n : 1..MaxVerts, area : PathAreas], MaxPaths)

Traced == Len(paths) = 1     \* paths is <<>> before plt.contour, <<the list>> after

----------------------------------------------------------------------------
(* main(): one action per kind of statement *)

Running == failure = "none" /\ pc \in 1..Len(Prog)
Ins == Prog[pc]
Advance == pc' = pc + 1
Finished == failure = "none" /\ pc = Len(Prog) + 1

\* fc = FeatureCollection()
New ==
    /\ Running /\ Ins.op = "new"
    /\ Alloc(Ins.dst, <<>>)
    /\ Advance
    /\ UNCHANGED <<store, paths, storeFiles, localIndex, projIndex, failure, rect, grid>>

\* dst = gf.read('ocean', 'region', [name])
Read ==
    /\ Running /\ Ins.op = "read"
    /\ Alloc(Ins.dst, read(Ins.name))
    /\ Advance
    /\ UNCHANGED <<store, paths, storeFiles, localIndex, projIndex, failure, rect, grid>>

\* dst.merge(src): the features of src are appended to the collection dst names
Merge ==
    /\ Running /\ Ins.op = "merge"
    /\ colls' = [colls EXCEPT ![env[Ins.dst]] = @ \o colls[env[Ins.src]]]
    /\ Advance
    /\ UNCHANGED <<env, feats, store, paths, storeFiles, localIndex, projIndex,
                   failure, rect, grid>>

\* dst = src.combine(name)
Combine ==
    /\ Running /\ Ins.op = "combine"
    /\ Alloc(Ins.dst, combine(env[Ins.src], Ins.name))
    /\ Advance
    /\ UNCHANGED <<store, paths, storeFiles, localIndex, projIndex, failure, rect, grid>>

\* dst = a.difference(b)
Difference ==
    /\ Running /\ Ins.op = "difference"
    /\ Alloc(Ins.dst, difference(env[Ins.a], env[Ins.b]))
    /\ Advance
    /\ UNCHANGED <<store, paths, storeFiles, localIndex, projIndex, failure, rect, grid>>

\* dst = make_rectangle(lon0=.., lon1=.., lat0=.., lat1=.., name=.., author=author, tags=..)
MakeRectangle ==
    /\ Running /\ Ins.op = "rect"
    /\ Alloc(Ins.dst, make_rectangle(Ins.lon0, Ins.lon1, Ins.lat0, Ins.lat1,
                                     Ins.name, author, Ins.tags))
    /\ Advance
    /\ UNCHANGED <<store, paths, storeFiles, localIndex, projIndex, failure, rect, grid>>

\* dst.add_feature({...}) with a polygon written out in the script
AddFeature ==
    /\ Running /\ Ins.op = "add"
    /\ feats' = Append(feats,
          [name |-> Ins.name, author |-> author, object |-> "region",
           component |-> "ocean", tags |-> Ins.tags,
           geometry |-> [type |-> "Polygon", coordinates |-> Ins.coordinates]])
    /\ colls' = [colls EXCEPT ![env[Ins.dst]] = Append(@, Len(feats) + 1)]
    /\ Advance
    /\ UNCHANGED <<env, store, paths, storeFiles, localIndex, projIndex, failure, rect, grid>>

\* dst = src: dst names the collection src names
Alias ==
    /\ Running /\ Ins.op = "alias"
    /\ env' = [env EXCEPT ![Ins.dst] = env[Ins.src]]
    /\ Advance
    /\ UNCHANGED <<colls, feats, store, paths, storeFiles, localIndex, projIndex,
                   failure, rect, grid>>

\* props = var.features[0]['properties']; props[key] = val
SetProp ==
    /\ Running /\ Ins.op = "setprop"
    /\ feats' = [feats EXCEPT ![colls[env[Ins.var]][1]][Ins.key] = Ins.val]
    /\ Advance
    /\ UNCHANGED <<env, colls, store, paths, storeFiles, localIndex, projIndex,
                   failure, rect, grid>>

GetLongestContour_EmptyIsEmpty ==
    /\ Running /\ Ins.op = "contour"
    /\ \E ps \in PathLists :
         /\ paths' = <<ps>>
         /\ Alloc(Ins.dst, IF Len(ps) = 0 THEN <<>>
                           ELSE longest_contour(ps, Ins.contourValue, author))
         /\ Advance
         /\ UNCHANGED failure
    /\ UNCHANGED <<store, storeFiles, localIndex, projIndex, rect, grid>>

\* dst = get_longest_contour(contourValue, author): plt.contour traces some
\* paths; numpy.argmax raises ValueError when there is none.
GetLongestContour ==
    /\ Running /\ Ins.op = "contour"
    /\ \E ps \in PathLists :
         /\ paths' = <<ps>>
         /\ IF Len(ps) = 0
              THEN /\ failure' = "argmax"
                   /\ UNCHANGED <<pc, env, colls, feats>>
              ELSE /\ Alloc(Ins.dst, longest_contour(ps, Ins.contourValue, author))
                   /\ Advance
                   /\ UNCHANGED failure
    /\ UNCHANGED <<store, storeFiles, localIndex, projIndex, rect, grid>>

\* gf.split(fc): one file per feature, named after the feature
Split ==
    /\ Running /\ Ins.op = "split"
    /\ storeFiles' = storeFiles \cup {feats[f].name : f \in Range(colls[env[Ins.src]])}
    /\ Advance
    /\ UNCHANGED <<env, colls, feats, store, paths, localIndex, projIndex, failure,
                   rect, grid>>

\* gf.split(fc) raising after the files of the first k features are written
SplitFails ==
    /\ Running /\ Ins.op = "split"
    /\ \E k \in 0..(Len(colls[env[Ins.src]]) - 1) :
         storeFiles' = storeFiles \cup {feats[colls[env[Ins.src]][i]].name : i \in 1..k}
    /\ failure' = "split"
    /\ UNCHANGED <<pc, env, colls, feats, store, paths, localIndex, projIndex, rect, grid>>

\* write_feature_names_and_tags(gf.cacheLocation)
WriteIndex ==
    /\ Running /\ Ins.op = "writeindex"
    /\ localIndex' = "written"
    /\ Advance
    /\ UNCHANGED <<env, colls, feats, store, paths, storeFiles, projIndex, failure,
                   rect, grid>>

WriteIndexFails ==
    /\ Running /\ Ins.op = "writeindex"
    /\ localIndex' \in {localIndex, "partial"}
    /\ failure' = "writeindex"
    /\ UNCHANGED <<pc, env, colls, feats, store, paths, storeFiles, projIndex, rect, grid>>

\* shutil.copyfile('features_and_tags.json', '../../geometric_features/features_and_tags.json')
CopyIndex ==
    /\ Running /\ Ins.op = "copy"
    /\ localIndex = "written"
    /\ projIndex' = "new"
    /\ Advance
    /\ UNCHANGED <<env, colls, feats, store, paths, storeFiles, localIndex, failure,
                   rect, grid>>

\* copyfile raising: the destination is untouched, or opened and not filled
CopyIndexFails ==
    /\ Running /\ Ins.op = "copy"
    /\ projIndex' \in {projIndex, "partial"}
    /\ failure' = "copy"
    /\ UNCHANGED <<pc, env, colls, feats, store, paths, storeFiles, localIndex, rect, grid>>

\* A read of the store, a geometry operation or the contour extraction (its
\* download, its file reads, its projection) raises: main() has no handler.
Raise ==
    /\ Running /\ Ins.op \in {"read", "combine", "difference", "contour"}
    /\ failure' = Ins.op
    /\ UNCHANGED <<pc, env, colls, feats, store, paths, storeFiles, localIndex,
                   projIndex, rect, grid>>

Idle == [phase |-> "unused"]

Init ==
    /\ pc = 1
    /\ env = [v \in PyVars |-> 0]
    /\ colls = <<>>
    /\ feats = <<>>
    /\ store \in Stores
    /\ paths = <<>>
    /\ storeFiles = {}
    /\ localIndex = "absent"
    /\ projIndex = "old"
    /\ failure = "none"
    /\ rect = Idle
    /\ grid = Idle

Next ==
    \/ New \/ Read \/ Merge \/ Combine \/ Difference \/ MakeRectangle
    \/ AddFeature \/ Alias \/ SetProp \/ GetLongestContour
    \/ Split \/ SplitFails \/ WriteIndex \/ WriteIndexFails
    \/ CopyIndex \/ CopyIndexFails \/ Raise

Spec == Init /\ [][Next]_vars

----------------------------------------------------------------------------
(* make_rectangle called alone, on any bounds *)

\* main() is not running: nothing on the heap, nothing written.
MainIdle ==
    /\ pc = 0
    /\ env = [v \in PyVars |-> 0]
    /\ colls = <<>>
    /\ feats = <<>>
    /\ store \in {[n \in StoreNames |-> Stored({})]}
    /\ storeFiles = {}
    /\ localIndex = "absent"
    /\ projIndex = "old"
    /\ failure = "none"

RectCoords == (0 - MaxCoord)..MaxCoord

InitRect ==
    /\ MainIdle
    /\ paths = <<>>
    /\ grid = Idle
    /\ rect \in [phase : {"call"}, lon0 : RectCoords, lon1 : RectCoords,
                 lat0 : RectCoords, lat1 : RectCoords, result : {<<>>}]

RectCall ==
    /\ rect.phase = "call"
    /\ rect' = [rect EXCEPT
                  !.phase = "returned",
                  !.result = make_rectangle(rect.lon0, rect.lon1, rect.lat0, rect.lat1,
                                            "box", author, "tag")]
    /\ UNCHANGED <<mainVars, grid>>

NextRect == RectCall

SpecRect == InitRect /\ [][NextRect]_vars

----------------------------------------------------------------------------
(* get_longest_contour called alone: the grid, its masking, the selection *)

amin(a) == CHOOSE v \in Range(a) : \A w \in Range(a) : v <= w
amax(a) == CHOOSE v \in Range(a) : \A w \in Range(a) : w <= v

\* (x==numpy.amin(x)) | (x==numpy.amax(x)) | (y==numpy.amin(y)) | (y==numpy.amax(y)):
\* x and y are one-dimensional, so the four comparisons are combined element
\* by element, which numpy does only for arrays of one length.
MaskDefined(x, y) == Len(x) = Len(y)

EdgeMask(x, y) ==
    [i \in 1..Len(x) |-> \/ x[i] = amin(x) \/ x[i] = amax(x)
                         \/ y[i] = amin(y) \/ y[i] = amax(y)]

\* z[mask] = 0.0 with a one-dimensional boolean mask: the mask indexes the
\* first axis of z, its rows.
MaskedZ(x, y, z) ==
    [r \in 1..Len(z) |->
        IF EdgeMask(x, y)[r] THEN [c \in 1..Len(z[r]) |-> 0] ELSE z[r]]

Sizes == 2..MaxN
Depths == {-500, -100}

\* A regular grid of ny rows and nx columns, centred on the pole, whose
\* depths alternate between d1 and d2.
Grid(ny, nx, d1, d2) ==
    [ phase |-> "loaded",
      x |-> [i \in 1..nx |-> 2 * i - (nx + 1)],
      y |-> [j \in 1..ny |-> 2 * j - (ny + 1)],
      z0 |-> [r \in 1..ny |-> [c \in 1..nx |-> IF (r + c) % 2 = 0 THEN d1 ELSE d2]],
      z |-> [r \in 1..ny |-> [c \in 1..nx |-> IF (r + c) % 2 = 0 THEN d1 ELSE d2]],
      result |-> <<>> ]

InitContour ==
    /\ MainIdle
    /\ paths = <<>>
    /\ rect = Idle
    /\ grid \in {Grid(ny, nx, d1, d2) : ny \in Sizes, nx \in Sizes,
                                        d1 \in Depths, d2 \in Depths}

\* lines 42-46
MaskEdges ==
    /\ grid.phase = "loaded"
    /\ grid' = IF MaskDefined(grid.x, grid.y)
                 THEN [grid EXCEPT !.phase = "masked",
                                   !.z = MaskedZ(grid.x, grid.y, grid.z)]
                 ELSE [grid EXCEPT !.phase = "raised"]
    /\ UNCHANGED <<mainVars, rect>>

\* lines 49-95
TraceAndSelect ==
    /\ grid.phase = "masked"
    /\ \E ps \in PathLists :
         /\ paths' = <<ps>>
         /\ grid' = IF Len(ps) = 0
                      THEN [grid EXCEPT !.phase = "raised"]
                      ELSE [grid EXCEPT !.phase = "returned",
                                        !.result = longest_contour(ps, -300, author)]
    /\ UNCHANGED <<pc, env, colls, feats, store, storeFiles, localIndex, projIndex,
                   failure, rect>>

NextContour == MaskEdges \/ TraceAndSelect

SpecContour == InitContour /\ [][NextContour]_vars

----------------------------------------------------------------------------
(* Properties *)

\* The index in Prog of the last statement of a line of the script.
PcOfLine(l) ==
    CHOOSE i \in 1..Len(Prog) :
        Prog[i].line = l /\ \A j \in (i + 1)..Len(Prog) : Prog[j].line # l

At(l) == Running /\ Ins.line = l       \* the statement of line l is the next to run
After(l) == pc > PcOfLine(l)           \* the statements of line l have run

\* The features of the collection a Python variable names, and the one of a name.
FeatsOf(v) == Range(colls[env[v]])
NamesOf(v) == [i \in 1..Len(colls[env[v]]) |-> feats[colls[env[v]][i]].name]
Named(v, nm) == {f \in FeatsOf(v) : feats[f].name = nm}
ShapeOf(f) == Shape(feats[f].geometry)

CutFromCentralArctic ==
    {"Beaufort Gyre", "Beaufort Gyre Shelf", "Chukchi Sea", "East Siberian Sea", "Laptev Sea"}

\* C1: once main() has merged Central Arctic into the output collection, and
\* for every store and every contour, the geometry of the feature named
\* Central Arctic shares no point with the geometry of any of the features
\* Beaufort Gyre, Beaufort Gyre Shelf, Chukchi Sea, East Siberian Sea and
\* Laptev Sea of the output collection.
C1_CentralArcticDisjoint ==
    After(275) =>
        /\ Named("fc", "Central Arctic") # {}
        /\ \A n \in CutFromCentralArctic : Named("fc", n) # {}
        /\ \A f \in Named("fc", "Central Arctic") :
             \A g \in FeatsOf("fc") :
                feats[g].name \in CutFromCentralArctic => ShapeOf(f) \cap ShapeOf(g) = {}

\* C1 witness: main() has finished, the new Arctic Ocean overlapped each of
\* the five features, and something of it is left in Central Arctic.
C1_Witness ==
    /\ Finished
    /\ \A f \in Named("fc", "Arctic Ocean") :
         \A g \in FeatsOf("fc") :
            feats[g].name \in CutFromCentralArctic => ShapeOf(f) \cap ShapeOf(g) # {}
    /\ \E f \in Named("fc", "Central Arctic") : ShapeOf(f) # {}

\* C2: when the difference of line 162 is taken, the collection subtracted
\* from the North of Fram Strait rectangle holds exactly the old Arctic Ocean,
\* the Lincoln Sea and the new Barents Sea, and nothing else.
C2_FramMaskOperands ==
    At(162) => NamesOf("fc_tmp") = <<"Arctic Ocean", "Lincoln Sea", "Barents Sea">>

\* C3: the Beaufort Gyre computed as R.difference(R.difference(C)) is the
\* part of the rectangle R inside the contour C, and so lies within R.
C3_DoubleDifferenceIsIntersection ==
    After(184) =>
        /\ Len(colls[env["fcBG"]]) = 1
        /\ \A f \in FeatsOf("fcBG") :
             /\ ShapeOf(f) = UnionShape(env["fcBG_firstTry"])
                                \cap UnionShape(env["fcContour300"])
             /\ ShapeOf(f) \subseteq UnionShape(env["fcBG_firstTry"])

\* C3 witness: the contour covers part of the rectangle, not all, and
\* reaches outside it.
C3_Witness ==
    /\ After(184)
    /\ \E f \in FeatsOf("fcBG") :
         /\ ShapeOf(f) # {}
         /\ ShapeOf(f) # UnionShape(env["fcBG_firstTry"])
    /\ ~(UnionShape(env["fcContour300"]) \subseteq UnionShape(env["fcBG_firstTry"]))

\* C4: when gf.split is called, each feature made by combine (Barents Sea,
\* Arctic Ocean, Beaufort Gyre Shelf) has had its tags and its author
\* assigned by the script, and Central Arctic carries its own tags and the
\* script's author: none is left with what combine or difference produced.
C4_PropertiesAssignedBeforeSplit ==
    At(281) =>
        /\ \A f \in FeatsOf("fc") :
             feats[f].name \in {"Barents Sea", "Arctic Ocean", "Beaufort Gyre Shelf"} =>
                feats[f].tags # NotInferred /\ feats[f].author # NotInferred
        /\ \A f \in Named("fc", "Central Arctic") :
             feats[f].tags = "Central_Arctic;Arctic;Arctic_Basin" /\ feats[f].author = author

OutputNames ==
    { "Barents Sea", "Kara Sea", "Arctic Ocean", "Beaufort Gyre", "Chukchi Sea",
      "Beaufort Gyre Shelf", "East Siberian Sea", "Laptev Sea", "Central Arctic" }

\* C5: when gf.split is called, the output collection holds exactly one
\* feature of each of the nine names, no two features share a name, and the
\* Arctic Ocean feature still has the name and the tags it was merged with.
C5_UniqueNamesAtSplit ==
    At(281) =>
        /\ \A i, j \in 1..Len(NamesOf("fc")) : i # j => NamesOf("fc")[i] # NamesOf("fc")[j]
        /\ Range(NamesOf("fc")) = OutputNames
        /\ \E f \in Named("fc", "Arctic Ocean") :
             feats[f].tags = "Arctic_Ocean;Arctic;Arctic_Basin"

\* C5 witness: gf.split is about to run and Central Arctic is a feature of its
\* own, not the Arctic Ocean feature, both in the output collection.
C5_Witness ==
    /\ At(281)
    /\ \E f \in Named("fc", "Arctic Ocean") :
         \E g \in Named("fc", "Central Arctic") : f # g

\* C6: for all bounds, in any order, make_rectangle returns one feature whose
\* polygon has one ring of exactly 5 pairs, (lon0,lat0), (lon1,lat0),
\* (lon1,lat1), (lon0,lat1), (lon0,lat0), and the call is never refused.
C6_RectangleRing ==
    /\ rect.phase = "call" => ENABLED RectCall
    /\ rect.phase = "returned" =>
         /\ Len(rect.result) = 1
         /\ Len(rect.result[1].geometry.coordinates) = 1
         /\ Len(rect.result[1].geometry.coordinates[1]) = 5
         /\ rect.result[1].geometry.coordinates[1] =
              << <<rect.lon0, rect.lat0>>, <<rect.lon1, rect.lat0>>,
                 <<rect.lon1, rect.lat1>>, <<rect.lon0, rect.lat1>>,
                 <<rect.lon0, rect.lat0>> >>
         /\ rect.result[1].geometry.coordinates[1][5] =
              rect.result[1].geometry.coordinates[1][1]

\* C6 witness: make_rectangle has returned for bounds given in descending order.
C6_Witness ==
    rect.phase = "returned" /\ rect.lon0 > rect.lon1 /\ rect.lat0 > rect.lat1

\* C7 (as claimed): whatever step fails, no per-feature file has been written
\* and the project's features_and_tags.json has not been replaced.
C7_NoOutputOnAnyFailure ==
    failure # "none" => storeFiles = {} /\ projIndex = "old"

\* C7 (amended): a failure before gf.split leaves no file written and both
\* index files untouched; a failure of gf.split or of the index write leaves
\* the project's features_and_tags.json untouched.
C7_NoOutputOnEarlyFailure ==
    /\ failure \in {"read", "combine", "difference", "contour", "argmax"} =>
         storeFiles = {} /\ localIndex = "absent" /\ projIndex = "old"
    /\ failure \in {"split", "writeindex"} => projIndex = "old"

\* C7 witness: the last geometry operation of the script, line 270, has failed.
C7_Witness ==
    failure = "difference" /\ pc = PcOfLine(270)

\* C8: after the masked assignment every sample of the first row, the last
\* row, the first column and the last column of z is 0, and every other
\* sample has the depth it had.
C8_FourEdgesZeroed ==
    grid.phase = "masked" =>
        \A r \in 1..Len(grid.z) : \A c \in 1..Len(grid.z[r]) :
            IF r = 1 \/ r = Len(grid.z) \/ c = 1 \/ c = Len(grid.z[r])
              THEN grid.z[r][c] = 0
              ELSE grid.z[r][c] = grid.z0[r][c]

\* C9: for a non-empty list of paths, the collection returned holds exactly
\* one feature, named "Contour -300.0", whose geometry is that of the first
\* path among those with the most vertices.
C9_LongestPathSelected ==
    grid.phase = "returned" =>
        /\ Len(grid.result) = 1
        /\ grid.result[1].name = "Contour -300.0"
        /\ \E i \in 1..Len(paths[1]) :
             /\ \A j \in 1..Len(paths[1]) : paths[1][j].n <= paths[1][i].n
             /\ \A j \in 1..(i - 1) : paths[1][j].n < paths[1][i].n
             /\ grid.result[1].geometry = Mapping(paths[1][i].area)

\* C9 witness: two paths tie for the most vertices and enclose different areas.
C9_Witness ==
    /\ grid.phase = "returned"
    /\ Len(paths[1]) = 2
    /\ paths[1][1].n = paths[1][2].n
    /\ paths[1][1].area # paths[1][2].area

\* C10: when the contour traced has no path, get_longest_contour raises at
\* the selection, returns no collection, and main() stops there: the
\* Beaufort Gyre is never built and gf.split never writes.
C10_EmptyContourAborts ==
    (Traced /\ Len(paths[1]) = 0) =>
        /\ failure = "argmax"
        /\ pc = PcOfLine(180)
        /\ env["fcContour300"] = 0
        /\ env["fcBG_firstTry"] = 0 /\ env["fcBG"] = 0
        /\ storeFiles = {}

\* C10 witness: plt.contour has traced no path.
C10_Witness ==
    Traced /\ Len(paths[1]) = 0 /\ failure = "argmax"

====
